---- MODULE Spec2Model ----
(***************************************************************************)
(* A model of odc.algo._tiff: GeoRasterInfo, roi_shrink2, TIFFSink (one    *)
(* resolution level written by windows) and COGSink (a chain of TIFFSinks  *)
(* kept current by a 2x2 box filter and merged by finalise).               *)
(*                                                                         *)
(* numpy arrays are records [err, h, w, px] with px a function over        *)
(* (0..h-1) \X (0..w-1); Python's None is the empty sequence and an        *)
(* integer x that may be None is <<x>>.                                    *)
(***************************************************************************)
EXTENDS Integers, Sequences, FiniteSets, TLC

VARIABLES
    info,      \* constructor arguments of the object under study
    layers,    \* COGSink._layers: one TIFFSink per level (static fields)
    content,   \* per level: the pixels held by the backend dataset (_out)
    res,       \* per level: state of the resources (_out, _mem, _mem_mine)
    locks,     \* per level: the thread that holds TIFFSink._lock, or 0
    th,        \* per thread: where it is inside a call, with its locals
    hist,      \* observations: backend calls made so far
    call,      \* pure-function harness: the arguments
    ret        \* pure-function harness: the value returned (<<>>: not yet called)

vars == <<info, layers, content, res, locks, th, hist, call, ret>>

None == <<>>
Some(x) == <<x>>

Min2(a, b) == IF a < b THEN a ELSE b

(***************************************************************************)
(* Element types: the integer types of at most 32 bits whose values TLC's  *)
(* integers hold, each at its full width.                                  *)
(***************************************************************************)
DTypes == {"int8", "uint8", "int16", "uint16", "int32"}

ItemSize(dtype) ==
    CASE dtype \in {"int8", "uint8"}   -> 1
      [] dtype \in {"int16", "uint16"} -> 2
      [] dtype = "int32"               -> 4

IntMax(dtype) ==
    CASE dtype = "int8"   -> 127
      [] dtype = "uint8"  -> 255
      [] dtype = "int16"  -> 32767
      [] dtype = "uint16" -> 65535
      [] dtype = "int32"  -> 2147483647

IntMin(dtype) ==
    CASE dtype = "int8"   -> -128
      [] dtype = "uint8"  -> 0
      [] dtype = "int16"  -> -32768
      [] dtype = "uint16" -> 0
      [] dtype = "int32"  -> (-2147483647) - 1

(* numpy addition of two int32 values: wraps around silently.  Written so  *)
(* that no intermediate value leaves the 32-bit range.                     *)
NpAddInt32(a, b) ==
    IF a >= 0 /\ b >= 0 /\ a > IntMax("int32") - b
    THEN ((a - IntMax("int32")) - 1) + ((b - IntMax("int32")) - 1)
    ELSE IF a < 0 /\ b < 0 /\ a < IntMin("int32") - b
         THEN ((a + IntMax("int32")) + 1) + ((b + IntMax("int32")) + 1)
         ELSE a + b

(* (temp / 4).astype(dtype) on one element: the true division gives a      *)
(* float64 (exact for |s| <= 2^31), and the conversion back to an integer  *)
(* type truncates toward zero.                                             *)
TrueDiv4AsType(s) == IF s >= 0 THEN s \div 4 ELSE (s + 3) \div 4

(***************************************************************************)
(* numpy arrays                                                            *)
(***************************************************************************)
NpError == [err |-> TRUE, h |-> 0, w |-> 0, px |-> <<>>]

Grid(hh, ww) == (0 .. hh - 1) \X (0 .. ww - 1)

MkArray(hh, ww, px) == [err |-> FALSE, h |-> hh, w |-> ww, px |-> px]

(* xx[k::2, :] *)
RowsFrom(xx, k) ==
    LET hh == IF xx.h > k THEN (xx.h - k + 1) \div 2 ELSE 0
    IN  MkArray(hh, xx.w, [p \in Grid(hh, xx.w) |-> xx.px[<<2 * p[1] + k, p[2]>>]])

(* xx[:, k::2] *)
ColsFrom(xx, k) ==
    LET ww == IF xx.w > k THEN (xx.w - k + 1) \div 2 ELSE 0
    IN  MkArray(xx.h, ww, [p \in Grid(xx.h, ww) |-> xx.px[<<p[1], 2 * p[2] + k>>]])

BroadcastDim(m, n) == IF m = n THEN m ELSE IF m = 1 THEN n ELSE IF n = 1 THEN m ELSE -1

(* a + b with numpy's broadcasting; a ValueError when the shapes do not    *)
(* broadcast together.                                                     *)
NpAdd(a, b) ==
    LET hh == BroadcastDim(a.h, b.h)
        ww == BroadcastDim(a.w, b.w)
    IN  IF hh < 0 \/ ww < 0 THEN NpError
        ELSE MkArray(hh, ww, [p \in Grid(hh, ww) |->
                 NpAddInt32(
                     a.px[<<IF a.h = 1 THEN 0 ELSE p[1], IF a.w = 1 THEN 0 ELSE p[2]>>],
                     b.px[<<IF b.h = 1 THEN 0 ELSE p[1], IF b.w = 1 THEN 0 ELSE p[2]>>])])

(***************************************************************************)
(* roi_shrink2.  An index carries its Python type in the field t: an int   *)
(* [t |-> "int", v], a slice [t |-> "slice", start, stop, step] whose      *)
(* parts are None or <<x>>, or a tuple [t |-> "tuple", items] of indexes.  *)
(***************************************************************************)
IntIdx(x) == [t |-> "int", v |-> x]

Tuple(items) == [t |-> "tuple", items |-> items]

maybe_div2(x) == IF x = None THEN None ELSE Some(x[1] \div 2)

SliceShrink2KeepStep(s) ==
    [t |-> "slice", start |-> maybe_div2(s.start), stop |-> maybe_div2(s.stop),
     step |-> s.step]

SliceShrink2(s) ==
    [t |-> "slice", start |-> maybe_div2(s.start), stop |-> maybe_div2(s.stop),
     step |-> maybe_div2(s.step)]

RECURSIVE roi_shrink2(_)
roi_shrink2(idx) ==
    IF idx.t = "int" THEN IntIdx(idx.v \div 2)
    ELSE IF idx.t = "slice" THEN SliceShrink2(idx)
    ELSE Tuple([i \in 1 .. Len(idx.items) |-> roi_shrink2(idx.items[i])])

(***************************************************************************)
(* COGSink.shrink2: the 2x2 box filter.  Every modelled element type is    *)
(* accumulated as int32: the narrow ones because wk_dtype promotes them,   *)
(* int32 because it is its own working type.                               *)
(***************************************************************************)
wk_dtype(dtype) == IF ItemSize(dtype) <= 2 THEN "int32" ELSE dtype

shrink2Block(dtype, xx) ==
    LET temp1 == NpAdd(RowsFrom(xx, 0), RowsFrom(xx, 1))
        temp2 == IF temp1.err THEN NpError
                 ELSE NpAdd(ColsFrom(temp1, 0), ColsFrom(temp1, 1))
    IN  IF wk_dtype(dtype) # "int32" \/ temp2.err THEN NpError
        ELSE MkArray(temp2.h, temp2.w,
                     [p \in Grid(temp2.h, temp2.w) |-> TrueDiv4AsType(temp2.px[p])])

COGSink_shrink2(dtype, xx, roi) ==
    [roi |-> roi_shrink2(roi), item |-> shrink2Block(dtype, xx)]

(***************************************************************************)
(* GeoRasterInfo and the level chain built by COGSink.__init__             *)
(***************************************************************************)
GeoRasterInfo(w, h, dt) ==
    [width |-> w, height |-> h, count |-> 1, dtype |-> dt, crs |-> "epsg:4326",
     transform |-> <<1, 0, 0, 0, -1, 0>>, nodata |-> None]

AffineScale2Left(t) == <<2 * t[1], 2 * t[2], 2 * t[3], 2 * t[4], 2 * t[5], 2 * t[6]>>

(* Affine(a, b, c, d, e, f) * Affine.scale(2, 2) *)
AffineScale2(t) == <<2 * t[1], 2 * t[2], t[3], 2 * t[4], 2 * t[5], t[6]>>

GeoRasterInfo_shrink2(ii) ==
    [ii EXCEPT !.width = ii.width \div 2, !.height = ii.height \div 2,
               !.transform = AffineScale2(ii.transform)]

DefaultBlocksize(blocksize) == IF blocksize = None THEN 512 ELSE blocksize[1]

DefaultOvrBlocksize(blocksize, ovr_blocksize) ==
    IF ovr_blocksize = None THEN DefaultBlocksize(blocksize) ELSE ovr_blocksize[1]

LoopCountShort == 7 + 0

LoopCount == 7 + 1

StopAfterSizeOnly(ii, ovr_blocksize) == Min2(ii.width, ii.height) < ovr_blocksize

StopAfterInclusive(ii, ovr_blocksize) ==
    \/ ii.width % 2 # 0 \/ ii.height % 2 # 0
    \/ Min2(ii.width, ii.height) <= ovr_blocksize

(* the two break conditions of the level loop *)
StopAfter(ii, ovr_blocksize) ==
    \/ ii.width % 2 # 0 \/ ii.height % 2 # 0
    \/ Min2(ii.width, ii.height) < ovr_blocksize

(* One TIFFSink of the chain: its descriptor, the block size it was given  *)
(* and the number of ".ovr" suffixes of its destination name.              *)
RECURSIVE LayerLoop(_, _, _, _, _)
LayerLoop(ii, bsz, novr, iter, ovr_blocksize) ==
    LET sink == [info |-> ii, blocksize |-> bsz, novr |-> novr]
    IN  IF iter >= LoopCount THEN <<>>
        ELSE IF StopAfter(ii, ovr_blocksize) THEN <<sink>>
        ELSE <<sink>> \o LayerLoop(GeoRasterInfo_shrink2(ii),
                                   IF bsz > 64 THEN bsz \div 2 ELSE bsz,
                                   novr + 1, iter + 1, ovr_blocksize)

COGSink_layers(ii, blocksize, ovr_blocksize) ==
    LayerLoop(ii, 2048, 0, 0, DefaultOvrBlocksize(blocksize, ovr_blocksize))

(***************************************************************************)
(* Bounds of the model                                                     *)
(***************************************************************************)
MaxCalls == 2
MaxFailures == 1
MaxCloses == 2
MaxExp == 10
MaxBlockDim == 5
MaxIdx == 6
MaxDim == 9

(* the caller's worker threads *)
Threads == {1, 2}

(***************************************************************************)
(* Windows and blocks                                                      *)
(***************************************************************************)
Slice(a, b) == [t |-> "slice", start |-> Some(a), stop |-> Some(b), step |-> None]
FullSlice == [t |-> "slice", start |-> None, stop |-> None, step |-> None]

(* the slices along an axis of length dim that a caller passes *)
AxisSlices(dim) ==
    {Slice(ab[1], ab[2]) : ab \in {x \in (0 .. dim - 1) \X (1 .. dim) : x[1] < x[2]}}
        \cup {FullSlice}

(* rasterio's Window.from_slices(rows, cols, height=, width=) for slices   *)
(* with non-negative or missing bounds; the step is not looked at.         *)
AxisRange(s, dim) ==
    LET a == IF s.start = None THEN 0 ELSE s.start[1]
        b == IF s.stop = None THEN dim ELSE s.stop[1]
    IN  [off |-> a, len |-> IF b > a THEN b - a ELSE 0]

WindowFromSlices(key, height, width) ==
    LET r == AxisRange(key.items[1], height)
        c == AxisRange(key.items[2], width)
    IN  [row_off |-> r.off, col_off |-> c.off, height |-> r.len, width |-> c.len]

WinPixels(win) ==
    (win.row_off .. win.row_off + win.height - 1) \X
    (win.col_off .. win.col_off + win.width - 1)

(* the raster the callers write, window by window *)
SrcValue(r, c) == 7 * r + 2 * c + r * c

SrcBlock(win) ==
    MkArray(win.height, win.width,
            [p \in Grid(win.height, win.width) |->
                SrcValue(win.row_off + p[1], win.col_off + p[2])])

(***************************************************************************)
(* The backend dataset of one level: a cell is <<>> (never written),       *)
(* <<v>> (holds v) or Unspecified (written by a resampling or a racing     *)
(* backend call: some value the model does not know).                      *)
(***************************************************************************)
Unspecified == <<0, 0>>

LevelPixels(sink) == (0 .. sink.info.height - 1) \X (0 .. sink.info.width - 1)

EmptyDataset(sink) == [p \in LevelPixels(sink) |-> <<>>]

(* a write of nothing: an empty window or an empty block *)
ZeroSized(win, block) ==
    \/ win.height = 0 \/ win.width = 0
    \/ block.h = 0 \/ block.w = 0

(* self._out.write(block, indexes=band, window=win): the pixels of the     *)
(* window that lie inside the raster take the block's values; a block      *)
(* whose shape differs from the window's is resampled by the backend; a    *)
(* zero-sized write the backend lets through transfers nothing.            *)
DatasetWriteAtOrigin(data, win, block, torn) ==
    [p \in DOMAIN data |->
        IF p[1] < win.height /\ p[2] < win.width /\ ~ZeroSized(win, block)
        THEN IF torn \/ block.h # win.height \/ block.w # win.width
             THEN Unspecified
             ELSE Some(block.px[p])
        ELSE data[p]]

DatasetWrite(data, win, block, torn) ==
    [p \in DOMAIN data |->
        IF p \in WinPixels(win) /\ ~ZeroSized(win, block)
        THEN IF torn \/ block.h # win.height \/ block.w # win.width
             THEN Unspecified
             ELSE Some(block.px[<<p[1] - win.row_off, p[2] - win.col_off>>])
        ELSE data[p]]

(* the backend refuses a write on a closed dataset *)
DatasetRejects(r) == ~r.out_open

(***************************************************************************)
(* Resources of one TIFFSink                                               *)
(***************************************************************************)
FinalDst == <<"dst", 0>>
TempName(novr) == <<"temp", novr>>

(* "if temp_folder:": None and the empty string count as no folder *)
Truthy(temp_folder) == temp_folder # None /\ temp_folder[1] # ""

(* the destination COGSink.__init__ gives a level: a path under            *)
(* temp_folder, or a MemoryFile it creates when there is no temp_folder    *)
LevelDst(temp_folder) == IF Truthy(temp_folder) THEN "path" ELSE "handle"

(* TIFFSink.__init__: dst is ":mem:", a path, or a MemoryFile handle.      *)
(* mem_open: a MemoryFile backs the dataset and is open; file: the dataset *)
(* is a file on disk, which exists from then on.                           *)
OpenSink(dst) ==
    [out_open |-> TRUE, out_released |-> 0,
     mem_mine |-> (dst = ":mem:"), mem_open |-> (dst # "path"), mem_released |-> 0,
     file |-> (dst = "path"), deleted |-> FALSE]

(* self._out.close(): closing a closed dataset does nothing *)
OutClose(r) ==
    IF r.out_open THEN [r EXCEPT !.out_open = FALSE, !.out_released = @ + 1] ELSE r

TIFFSink_close(r) == OutClose(r)

(* TIFFSink.__del__ *)
TIFFSink_del(r) ==
    LET c == TIFFSink_close(r)
    IN  IF c.mem_mine
        THEN [c EXCEPT !.mem_open = FALSE,
                       !.mem_released = IF c.mem_open THEN @ + 1 ELSE @,
                       !.mem_mine = FALSE, !.deleted = TRUE]
        ELSE [c EXCEPT !.deleted = TRUE]

(***************************************************************************)
(* The sinks as a state machine.  A thread inside a call is at one of:     *)
(*   "setitem"  about to run TIFFSink.__setitem__ of level lvl             *)
(*   "write"    inside self._out.write of level lvl (holding its lock)     *)
(*   "close"    inside COGSink.close, about to close level lvl             *)
(*   "copy"     inside COGSink.finalise, about to call rio_copy            *)
(***************************************************************************)
NLevels == Len(layers)
Levels == 1 .. NLevels

(*   "done"     the call has returned or raised; the caller has the result *)
(* arg is the (key, item) of the write call, wlog the backend writes made  *)
(* for it so far, closed the levels closed by the close call so far.       *)
(* live: the level's dataset was open when the thread entered its write.   *)
(* overlap: another thread has been inside the write of the same dataset   *)
(* at some moment of the thread's own write.                               *)
IdleThread == [pc |-> "idle", lvl |-> 0, key |-> <<>>, item |-> NpError,
               win |-> <<>>, op |-> "", closed |-> <<>>,
               arg |-> <<>>, wlog |-> <<>>, out |-> "", live |-> FALSE,
               overlap |-> FALSE]

NewHist(names) ==
    [ncalls |-> 0, nfail |-> 0, ncloses |-> 0, finalised |-> FALSE,
     issued |-> {},                        \* level-0 pixels handed to some write call
     raised |-> FALSE,                     \* a write call has raised
     io_failed |-> FALSE,                  \* a backend write failed on its own
     failed0 |-> FALSE,                    \* a level-0 backend write raised
     raced |-> FALSE,                      \* two threads were inside one dataset's write
     touched |-> names,                    \* destinations opened, written or closed
     copies |-> <<>>]                      \* the rio_copy calls made

(* The keys the callers pass: bands of rows (any row range, the whole      *)
(* width) and bands of columns (the whole height, half the width at any    *)
(* offset); once the sink is being closed, halves of the raster only.      *)
HalfSlices(dim) == {Slice(a, a + dim \div 2) : a \in 0 .. dim - dim \div 2} \cup {FullSlice}

(* keys of 0, 1, 3 and 4 axes *)
OtherAxisKeys ==
    {Tuple(<<>>), Tuple(<<FullSlice>>),
     Tuple(<<FullSlice, FullSlice, FullSlice>>),
     Tuple(<<Slice(0, 1), Slice(0, 2), FullSlice>>),
     Tuple(<<FullSlice, FullSlice, FullSlice, FullSlice>>)}

WriteKeys ==
    {Tuple(k) : k \in
        IF info.closing
        THEN HalfSlices(layers[1].info.height) \X {FullSlice}
        ELSE (AxisSlices(layers[1].info.height) \X {FullSlice})
                 \cup ({FullSlice} \X HalfSlices(layers[1].info.width))}
    \cup (IF info.axes THEN OtherAxisKeys ELSE {})

KeyWindow(key, l) == WindowFromSlices(key, layers[l].info.height, layers[l].info.width)

SetitemCheckBandIgnored(key, item) ==
    IF Len(key.items) \in {2, 3} THEN "ok" ELSE "AssertionError"

(* TIFFSink.__setitem__ up to the lock: ndim = len(key), the assertion on   *)
(* it (skipped when Python runs without assertions, python -O) and the     *)
(* three branches.  Every block of the model is 2-dimensional, so the      *)
(* assertion on item.ndim holds.                                           *)
SetitemCheck(key, item) ==
    LET ndim == Len(key.items)
    IN  IF info.asserts /\ ndim \notin {2, 3} THEN "AssertionError"
        ELSE IF ndim = 2 THEN "ok"
        ELSE IF ndim = 3 THEN "NotImplementedError"
        ELSE "ValueError"

LockFreeIgnored(l, t) == TRUE

(* with self._lock: the lock is free or lock=False *)
LockFree(l, t) == ~info.lock \/ locks[l] = 0

Acquire(l, t) == IF info.lock THEN [locks EXCEPT ![l] = t] ELSE locks

Release(l, t) == IF info.lock /\ locks[l] = t THEN [locks EXCEPT ![l] = 0] ELSE locks

(* the call ends: it returns ("ok") or raises *)
Done(t, what) == [th EXCEPT ![t].pc = "done", ![t].out = what]

Raise(t, what) ==
    /\ th' = Done(t, what)
    /\ hist' = [hist EXCEPT !.raised = TRUE]

(* COGSink.__setitem__ is entered: dst[key] = item on level 0 comes first *)
FirstLevel(key, item) ==
    [IdleThread EXCEPT !.pc = "setitem", !.lvl = 1, !.key = key, !.item = item,
                       !.op = "setitem", !.arg = <<key, item>>]

(* the level-0 pixels a key addresses, and the block the caller passes     *)
(* with it: the window's part of the raster (with a key of another axis    *)
(* count the block is never looked at; the whole raster stands for it)     *)
KeyPixels(key) == IF Len(key.items) = 2 THEN WinPixels(KeyWindow(key, 1)) ELSE {}

CallerBlock(key) ==
    IF Len(key.items) = 2 THEN SrcBlock(KeyWindow(key, 1))
    ELSE SrcBlock(KeyWindow(Tuple(<<FullSlice, FullSlice>>), 1))

StartWrite(t, key) ==
    /\ th[t].pc = "idle"
    /\ ~res[1].deleted
    /\ hist.ncalls < MaxCalls
    /\ KeyPixels(key) \cap hist.issued = {}
    /\ LET item == CallerBlock(key)
       IN  /\ th' = [th EXCEPT ![t] = FirstLevel(key, item)]
           /\ hist' = [hist EXCEPT !.ncalls = @ + 1,
                                   !.issued = @ \cup KeyPixels(key)]
    /\ UNCHANGED <<info, layers, content, res, locks, call, ret>>

COGSink_setitem(t, key) == StartWrite(t, key)

(* the same on a TIFFSink of its own: sink[key] = item *)
TIFFSink_write(t, key) == StartWrite(t, key)

(* the threads inside self._out.write of level l when thread t gets there *)
Overlapping(l, t) == {u \in Threads \ {t} : th[u].pc = "write" /\ th[u].lvl = l}

(* TIFFSink.__setitem__ up to the acquisition of the lock.  Without the    *)
(* lock the thread may enter the write while others are inside it: the     *)
(* race is on from that moment, for it and for them.                       *)
TIFFSink_setitem(t) ==
    /\ th[t].pc = "setitem"
    /\ LET l == th[t].lvl
           chk == SetitemCheck(th[t].key, th[t].item)
       IN  IF chk # "ok"
           THEN /\ Raise(t, chk)
                /\ UNCHANGED locks
           ELSE /\ LockFree(l, t)
                /\ locks' = Acquire(l, t)
                /\ th' = [u \in Threads |->
                             IF u = t
                             THEN [th[t] EXCEPT !.pc = "write",
                                                !.win = KeyWindow(th[t].key, l),
                                                !.live = res[l].out_open,
                                                !.overlap = Overlapping(l, t) # {}]
                             ELSE IF u \in Overlapping(l, t)
                                  THEN [th[u] EXCEPT !.overlap = TRUE]
                                  ELSE th[u]]
                /\ hist' = [hist EXCEPT !.raced = @ \/ Overlapping(l, t) # {}]
    /\ UNCHANGED <<info, layers, content, res, call, ret>>

(* the (key, item) COGSink.__setitem__ hands to the next level *)
NextFromCaller(t) == COGSink_shrink2(info.dtype, th[t].arg[2], th[t].arg[1])

NextLevelArgs(t) == COGSink_shrink2(info.dtype, th[t].item, th[t].key)

(* what follows dst[key] = item in COGSink.__setitem__: the next level,    *)
(* the return after the last one, or the ValueError of shrink2             *)
AfterWrite(t, entry) ==
    LET l == th[t].lvl
        d == NextLevelArgs(t)
        w == Append(th[t].wlog, entry)
    IN  IF l >= NLevels
        THEN [th EXCEPT ![t].pc = "done", ![t].out = "ok", ![t].wlog = w,
                        ![t].overlap = FALSE]
        ELSE IF d.item.err
             THEN [th EXCEPT ![t].pc = "done", ![t].out = "ValueError", ![t].wlog = w,
                             ![t].overlap = FALSE]
             ELSE [th EXCEPT ![t].pc = "setitem", ![t].lvl = l + 1, ![t].wlog = w,
                             ![t].key = d.roi, ![t].item = d.item, ![t].win = <<>>,
                             ![t].live = FALSE, ![t].overlap = FALSE]

(* the write thread t is inside has overlapped another thread's write of   *)
(* the same dataset, whether that one has since returned, raised or is     *)
(* still inside                                                            *)
Racing(t) == th[t].overlap

(* TIFFSink.close takes no lock: the dataset thread t entered the write of *)
(* was closed by another thread while t was inside self._out.write         *)
ClosedUnderWrite(t) == th[t].live /\ ~res[th[t].lvl].out_open

(* Whether the write raises.  A dataset closed before the write began is  *)
(* refused; a close racing with the write is a data race in the backend:   *)
(* the write may have got through or may fail.  What the backend does with *)
(* a zero-sized write is its own affair, the sink never looks at the size: *)
(* it may skip the transfer and return, or raise.                          *)
WriteRefusals(t) ==
    LET l == th[t].lvl
    IN  IF ClosedUnderWrite(t) THEN BOOLEAN
        ELSE IF DatasetRejects(res[l]) THEN {TRUE}
        ELSE IF ZeroSized(th[t].win, th[t].item) THEN BOOLEAN
        ELSE {FALSE}

(* self._out.write(...) returns or raises, the lock is released, and       *)
(* COGSink.__setitem__ goes on to the next level.                          *)
BackendWrite(t) ==
    /\ th[t].pc = "write"
    /\ LET l == th[t].lvl
           entry == [lvl |-> l, key |-> th[t].key, item |-> th[t].item, win |-> th[t].win]
       IN  /\ locks' = Release(l, t)
           /\ \E refused \in WriteRefusals(t) :
                IF refused
                THEN /\ th' = [th EXCEPT ![t].pc = "done", ![t].out = "RasterioIOError",
                                         ![t].wlog = Append(@, entry),
                                         ![t].overlap = FALSE]
                     /\ hist' = [hist EXCEPT !.raised = TRUE, !.failed0 = @ \/ l = 1]
                     /\ UNCHANGED content
                ELSE /\ \E torn \in (IF Racing(t) \/ ClosedUnderWrite(t)
                                      THEN BOOLEAN ELSE {FALSE}) :
                          content' = [content EXCEPT
                                         ![l] = DatasetWrite(@, th[t].win, th[t].item, torn)]
                     /\ th' = AfterWrite(t, entry)
                     /\ hist' = [hist EXCEPT !.raised = @ \/ th'[t].out = "ValueError",
                                             !.raced = @ \/ Racing(t),
                                             !.touched = @ \cup {TempName(layers[l].novr)}]
    /\ UNCHANGED <<info, layers, res, call, ret>>

BackendWriteFailsLockKept(t) ==
    /\ th[t].pc = "write"
    /\ hist.nfail < MaxFailures
    /\ th' = Done(t, "RasterioIOError")
    /\ hist' = [hist EXCEPT !.nfail = @ + 1, !.raised = TRUE,
                            !.io_failed = TRUE, !.failed0 = @ \/ th[t].lvl = 1]
    /\ UNCHANGED <<info, layers, content, res, locks, call, ret>>

BackendWriteFailsSwallowed(t) ==
    /\ th[t].pc = "write"
    /\ hist.nfail < MaxFailures
    /\ locks' = Release(th[t].lvl, t)
    /\ th' = IF th[t].lvl >= NLevels THEN Done(t, "ok")
             ELSE [th EXCEPT ![t].pc = "setitem", ![t].lvl = @ + 1,
                             ![t].key = NextLevelArgs(t).roi,
                             ![t].item = NextLevelArgs(t).item, ![t].win = <<>>]
    /\ hist' = [hist EXCEPT !.nfail = @ + 1, !.io_failed = TRUE,
                            !.failed0 = @ \/ th[t].lvl = 1]
    /\ UNCHANGED <<info, layers, content, res, call, ret>>

(* self._out.write(...) fails on its own (an I/O error of the backend) *)
BackendWriteFails(t) ==
    /\ th[t].pc = "write"
    /\ hist.nfail < MaxFailures
    /\ locks' = Release(th[t].lvl, t)
    /\ th' = [Done(t, "RasterioIOError") EXCEPT ![t].overlap = FALSE]
    /\ hist' = [hist EXCEPT !.nfail = @ + 1, !.raised = TRUE,
                            !.io_failed = TRUE, !.failed0 = @ \/ th[t].lvl = 1]
    /\ UNCHANGED <<info, layers, content, res, call, ret>>

(* the caller takes the result of the call *)
Return(t) ==
    /\ th[t].pc = "done"
    /\ th' = [th EXCEPT ![t] = IdleThread]
    /\ UNCHANGED <<info, layers, content, res, locks, hist, call, ret>>

(* COGSink.close() and COGSink.finalise() are entered *)
COGSink_close(t) ==
    /\ th[t].pc = "idle"
    /\ hist.ncloses < MaxCloses
    /\ th' = [th EXCEPT ![t] = [IdleThread EXCEPT !.pc = "close", !.lvl = 1, !.op = "close"]]
    /\ hist' = [hist EXCEPT !.ncloses = @ + 1]
    /\ UNCHANGED <<info, layers, content, res, locks, call, ret>>

COGSink_finalise(t) ==
    /\ th[t].pc = "idle"
    /\ ~hist.finalised
    /\ th' = [th EXCEPT ![t] = [IdleThread EXCEPT !.pc = "close", !.lvl = 1, !.op = "finalise"]]
    /\ hist' = [hist EXCEPT !.finalised = TRUE]
    /\ UNCHANGED <<info, layers, content, res, locks, call, ret>>

(* where finalise goes once it is entered: self.close() first *)
AfterLastClose(t) == IF th[t].op = "finalise" THEN "copy" ELSE "idle"

(* one turn of the loop of COGSink.close: dst.close() *)
CloseLevel(t) ==
    /\ th[t].pc = "close"
    /\ LET l == th[t].lvl
       IN  /\ res' = [res EXCEPT ![l] = TIFFSink_close(@)]
           /\ hist' = [hist EXCEPT !.touched = @ \cup {TempName(layers[l].novr)}]
           /\ th' = IF l < NLevels
                    THEN [th EXCEPT ![t].lvl = l + 1, ![t].closed = Append(@, l)]
                    ELSE IF AfterLastClose(t) = "idle"
                         THEN [th EXCEPT ![t].pc = "done", ![t].out = "ok",
                                         ![t].closed = Append(@, l)]
                         ELSE [th EXCEPT ![t].pc = "copy", ![t].closed = Append(@, l)]
    /\ UNCHANGED <<info, layers, content, locks, call, ret>>

(* rio_copy(self._layers[0].name, self._dst, copy_src_overviews=True) *)
CopySourceLast == TempName(layers[NLevels].novr)

CopySource == TempName(layers[1].novr)

FinaliseCopy(t) ==
    /\ th[t].pc = "copy"
    /\ hist' = [hist EXCEPT !.copies = Append(@, [src |-> CopySource, dst |-> FinalDst,
                                                  closed |-> th[t].closed,
                                                  untouched |-> FinalDst \notin hist.touched]),
                            !.touched = @ \cup {FinalDst}]
    /\ th' = Done(t, "ok")
    /\ UNCHANGED <<info, layers, content, res, locks, call, ret>>

(* TIFFSink.close() on a sink of its own *)
TIFFSink_close_call(t) ==
    /\ th[t].pc = "idle"
    /\ ~res[1].deleted
    /\ hist.ncloses < MaxCloses
    /\ res' = [res EXCEPT ![1] = TIFFSink_close(@)]
    /\ hist' = [hist EXCEPT !.ncloses = @ + 1, !.touched = @ \cup {TempName(layers[1].novr)}]
    /\ th' = [th EXCEPT ![t] = [IdleThread EXCEPT !.pc = "done", !.op = "close", !.out = "ok"]]
    /\ UNCHANGED <<info, layers, content, locks, call, ret>>

(* the sink is dropped by its last holder and collected: __del__ runs *)
TIFFSink_del_call ==
    /\ \A t \in Threads : th[t].pc = "idle"
    /\ ~res[1].deleted
    /\ res' = [res EXCEPT ![1] = TIFFSink_del(@)]
    /\ UNCHANGED <<info, layers, content, locks, th, hist, call, ret>>

(* ---- a COGSink shared by the threads ---- *)
(* <<height, width, ovr_blocksize>>: chains of 3 and 2 levels *)
CogConfigs == {<<4, 4, 1>>, <<4, 4, 4>>}

(* a raster of 6 rows over a level of 3: windows of even length at odd     *)
(* offsets fit into it                                                     *)
TallConfigs == {<<6, 2, 1>>}

InitSinkState(sinks, dst) ==
    /\ layers = sinks
    /\ content = [l \in 1 .. Len(sinks) |-> EmptyDataset(sinks[l])]
    /\ res = [l \in 1 .. Len(sinks) |-> OpenSink(dst)]
    /\ locks = [l \in 1 .. Len(sinks) |-> 0]
    /\ th = [t \in Threads |-> IdleThread]
    /\ hist = NewHist({TempName(sinks[l].novr) : l \in 1 .. Len(sinks)})
    /\ call = None /\ ret = None

(* closing: the callers also close and finalise, and write halves only *)
CogInfo(cfg, lock, closing) ==
    [kind |-> "COGSink", width |-> cfg[2], height |-> cfg[1],
     dtype |-> "uint8", blocksize |-> None, ovr_blocksize |-> Some(cfg[3]),
     lock |-> lock, dst |-> LevelDst(None), closing |-> closing,
     temp_folder |-> None, axes |-> FALSE, asserts |-> TRUE]

InitCog(closing) ==
    /\ \E cfg \in CogConfigs, lock \in BOOLEAN : info = CogInfo(cfg, lock, closing)
    /\ InitSinkState(COGSink_layers(GeoRasterInfo(info.width, info.height, info.dtype),
                                    info.blocksize, info.ovr_blocksize), info.dst)

(* The writing phase: the threads write disjoint windows of every shape. *)
Init == InitCog(FALSE)

Next ==
    \/ \E t \in Threads : \E key \in WriteKeys : COGSink_setitem(t, key)
    \/ \E t \in Threads : TIFFSink_setitem(t)
    \/ \E t \in Threads : BackendWrite(t)
    \/ \E t \in Threads : BackendWriteFails(t)
    \/ \E t \in Threads : Return(t)

Spec == Init /\ [][Next]_vars

(* The writing phase under the lock with the threads scheduled fairly: a   *)
(* thread that can go on inside TIFFSink.__setitem__ eventually does (it   *)
(* raises or takes the lock once the lock stays free), and a backend write *)
(* that was entered comes to an end, by returning or by raising.  The      *)
(* callers write halves of the raster.                                     *)
InitLive ==
    /\ \E cfg \in CogConfigs : info = CogInfo(cfg, TRUE, TRUE)
    /\ InitSinkState(COGSink_layers(GeoRasterInfo(info.width, info.height, info.dtype),
                                    info.blocksize, info.ovr_blocksize), info.dst)

Fairness ==
    \A t \in Threads : WF_vars(TIFFSink_setitem(t)) /\ []<>(th[t].pc # "write")

SpecLive == InitLive /\ [][Next]_vars /\ Fairness

(* The writing phase on the taller raster. *)
InitTall ==
    /\ \E cfg \in TallConfigs, lock \in BOOLEAN : info = CogInfo(cfg, lock, FALSE)
    /\ InitSinkState(COGSink_layers(GeoRasterInfo(info.width, info.height, info.dtype),
                                    info.blocksize, info.ovr_blocksize), info.dst)

SpecTall == InitTall /\ [][Next]_vars

(* The whole life of the sink: writes of half or whole rasters, close and  *)
(* finalise, by any thread at any time.                                    *)
InitFinal == InitCog(TRUE)

NextFinal ==
    \/ \E t \in Threads : \E key \in WriteKeys : COGSink_setitem(t, key)
    \/ \E t \in Threads : TIFFSink_setitem(t)
    \/ \E t \in Threads : BackendWrite(t)
    \/ \E t \in Threads : BackendWriteFails(t)
    \/ \E t \in Threads : COGSink_close(t)
    \/ \E t \in Threads : COGSink_finalise(t)
    \/ \E t \in Threads : CloseLevel(t)
    \/ \E t \in Threads : FinaliseCopy(t)
    \/ \E t \in Threads : Return(t)

SpecFinal == InitFinal /\ [][NextFinal]_vars

(* The whole life again, with the levels in MemoryFiles or in files under  *)
(* a temp_folder.                                                          *)
TempFolders == {None, Some(""), Some("tmp")}

InitTemp ==
    /\ \E cfg \in CogConfigs, tf \in TempFolders :
         info = [CogInfo(cfg, TRUE, TRUE) EXCEPT !.temp_folder = tf, !.dst = LevelDst(tf)]
    /\ InitSinkState(COGSink_layers(GeoRasterInfo(info.width, info.height, info.dtype),
                                    info.blocksize, info.ovr_blocksize), info.dst)

SpecTemp == InitTemp /\ [][NextFinal]_vars

(* The writes of halves again, with keys of 0, 1, 3 and 4 axes among them, *)
(* under a Python that checks assertions and one that does not.            *)
InitAxes ==
    /\ \E cfg \in CogConfigs, lock \in BOOLEAN, asserts \in BOOLEAN :
         info = [CogInfo(cfg, lock, TRUE) EXCEPT !.axes = TRUE, !.asserts = asserts]
    /\ InitSinkState(COGSink_layers(GeoRasterInfo(info.width, info.height, info.dtype),
                                    info.blocksize, info.ovr_blocksize), info.dst)

SpecAxes == InitAxes /\ [][Next]_vars

(* ---- a TIFFSink of its own, on each kind of destination ---- *)
SinkShapes == {<<2, 2>>}

SinkDsts == {":mem:", "path", "handle"}

InitSink ==
    /\ \E shape \in SinkShapes, dst \in SinkDsts, lock \in BOOLEAN :
         info = [kind |-> "TIFFSink", width |-> shape[2], height |-> shape[1],
                 dtype |-> "uint8", blocksize |-> None, ovr_blocksize |-> None,
                 lock |-> lock, dst |-> dst, closing |-> TRUE,
                 temp_folder |-> None, axes |-> FALSE, asserts |-> TRUE]
    /\ InitSinkState(<<[info |-> GeoRasterInfo(info.width, info.height, info.dtype),
                        blocksize |-> DefaultBlocksize(info.blocksize), novr |-> 0]>>,
                     info.dst)

NextSink ==
    \/ \E t \in Threads : \E key \in WriteKeys : TIFFSink_write(t, key)
    \/ \E t \in Threads : TIFFSink_setitem(t)
    \/ \E t \in Threads : BackendWrite(t)
    \/ \E t \in Threads : BackendWriteFails(t)
    \/ \E t \in Threads : TIFFSink_close_call(t)
    \/ TIFFSink_del_call
    \/ \E t \in Threads : Return(t)

SpecSink == InitSink /\ [][NextSink]_vars

(***************************************************************************)
(* Pure functions: the arguments are drawn by the initial state and one    *)
(* action applies the function.  The sink's variables are not used.        *)
(***************************************************************************)
NoSink ==
    /\ info = None /\ layers = <<>> /\ content = <<>> /\ res = <<>>
    /\ locks = <<>> /\ th = <<>> /\ hist = <<>>

SinkUnchanged == UNCHANGED <<info, layers, content, res, locks, th, hist>>

(* ---- COGSink.__init__: the level chain ---- *)
Pow2(k) == 2 ^ k

OddParts == {1, 3, 101}

LevelDims == {m * Pow2(k) : m \in OddParts, k \in 0 .. MaxExp}

BlocksizeArgs == {None, Some(64)}

OvrBlocksizeArgs == {None, Some(1), Some(2), Some(3), Some(512), Some(1000)}

InitLevels ==
    /\ NoSink
    /\ call \in [fn : {"COGSink"}, width : LevelDims, height : LevelDims,
                 blocksize : BlocksizeArgs, ovr_blocksize : OvrBlocksizeArgs]
    /\ ret = None

Construct ==
    /\ call.fn = "COGSink" /\ ret = None
    /\ ret' = Some(COGSink_layers(GeoRasterInfo(call.width, call.height, "uint16"),
                                  call.blocksize, call.ovr_blocksize))
    /\ UNCHANGED call
    /\ SinkUnchanged

NextLevels == Construct

SpecLevels == InitLevels /\ [][NextLevels]_vars

(* ---- COGSink.shrink2: the box filter on a 2x2 block ---- *)
SampleValues(dtype) ==
    {v \in {IntMin(dtype), -5, -1, 0, 1, 3, IntMax(dtype) \div 2 + 1, IntMax(dtype)} :
        IntMin(dtype) <= v /\ v <= IntMax(dtype)}

Block2x2(a, b, c, d) ==
    MkArray(2, 2, [p \in Grid(2, 2) |->
                     IF p[1] = 0 THEN (IF p[2] = 0 THEN a ELSE b)
                     ELSE (IF p[2] = 0 THEN c ELSE d)])

RoiArgs == {Tuple(<<Slice(0, 2), Slice(0, 2)>>), Tuple(<<Slice(2, 4), Slice(6, 8)>>),
            Tuple(<<FullSlice, FullSlice>>)}

InitShrink ==
    /\ NoSink
    /\ \E dt \in DTypes : \E a, b, c, d \in SampleValues(dt) : \E roi \in RoiArgs :
         call = [fn |-> "shrink2", dtype |-> dt, xx |-> Block2x2(a, b, c, d), roi |-> roi]
    /\ ret = None

CallShrink2 ==
    /\ call.fn = "shrink2" /\ ret = None
    /\ ret' = Some(COGSink_shrink2(call.dtype, call.xx, call.roi))
    /\ UNCHANGED call
    /\ SinkUnchanged

NextShrink == CallShrink2

SpecShrink == InitShrink /\ [][NextShrink]_vars

(* ---- COGSink.shrink2 on blocks of every shape, odd ones included ---- *)
(* <<k, a, b>>: the block whose pixel (r, c) is (k + a*r + b*c) % 100, a   *)
(* value of every element type *)
BlockPatterns == {<<0, 7, 2>>, <<3, 10, 1>>, <<50, 1, 13>>}

PatternBlock(hh, ww, pat) ==
    MkArray(hh, ww, [p \in Grid(hh, ww) |-> (pat[1] + pat[2] * p[1] + pat[3] * p[2]) % 100])

InitBlocks ==
    /\ NoSink
    /\ \E dt \in DTypes, hh \in 1 .. MaxBlockDim, ww \in 1 .. MaxBlockDim, pat \in BlockPatterns :
         call = [fn |-> "shrink2", dtype |-> dt, xx |-> PatternBlock(hh, ww, pat),
                 roi |-> Tuple(<<Slice(0, hh), Slice(0, ww)>>)]
    /\ ret = None

SpecBlocks == InitBlocks /\ [][NextShrink]_vars

(* ---- GeoRasterInfo.shrink2 on descriptors of every kind ---- *)
Transforms == {<<1, 0, 0, 0, -1, 0>>, <<30, 0, 100, 0, -30, -200>>, <<2, 1, 5, -1, 2, 7>>}

Descriptors ==
    {[GeoRasterInfo(w, h, dt) EXCEPT !.count = x[1], !.crs = x[2], !.nodata = x[3],
                                     !.transform = tr] :
        w \in 1 .. MaxDim, h \in 1 .. MaxDim, dt \in {"uint8", "int16"}, tr \in Transforms,
        x \in {1, 3} \X {"epsg:4326", "epsg:3577"} \X {None, Some(0), Some(-9999)}}

InitDesc ==
    /\ NoSink
    /\ \E d \in Descriptors : call = [fn |-> "GeoRasterInfo.shrink2", self |-> d]
    /\ ret = None

(* d.shrink2(): the descriptor returned, and self as the call leaves it *)
CallDescShrink2 ==
    /\ call.fn = "GeoRasterInfo.shrink2" /\ ret = None
    /\ ret' = Some([out |-> GeoRasterInfo_shrink2(call.self), self |-> call.self])
    /\ UNCHANGED call
    /\ SinkUnchanged

NextDesc == CallDescShrink2

SpecDesc == InitDesc /\ [][NextDesc]_vars

(***************************************************************************)
(* Claims about GeoRasterInfo.shrink2                                      *)
(***************************************************************************)
(* the product of two affine transforms <<a, b, c, d, e, f>>, the matrices *)
(* [a b c; d e f; 0 0 1]                                                   *)
AffineMul(m, n) ==
    <<m[1] * n[1] + m[2] * n[4], m[1] * n[2] + m[2] * n[5], m[1] * n[3] + m[2] * n[6] + m[3],
      m[4] * n[1] + m[5] * n[4], m[4] * n[2] + m[5] * n[5], m[4] * n[3] + m[5] * n[6] + m[6]>>

AffineScale(sx, sy) == <<sx, 0, 0, 0, sy, 0>>

(* C13: shrink2 of a descriptor d returns a descriptor whose width and     *)
(* height are the floor halves of d's, whose transform is d's composed     *)
(* with scale(2, 2), and whose band count, element type, CRS and nodata    *)
(* are d's; d is as it was.                                                *)
C13_DescriptorShrink2 ==
    (call.fn = "GeoRasterInfo.shrink2" /\ ret # None) =>
        LET d == call.self
            o == ret[1].out
        IN  /\ 2 * o.width <= d.width /\ d.width <= 2 * o.width + 1
            /\ 2 * o.height <= d.height /\ d.height <= 2 * o.height + 1
            /\ o.transform = AffineMul(d.transform, AffineScale(2, 2))
            /\ o.count = d.count /\ o.dtype = d.dtype /\ o.crs = d.crs
            /\ o.nodata = d.nodata
            /\ DOMAIN o = DOMAIN d
            /\ ret[1].self = d

(* an odd-sized, rotated, 3-band descriptor with a nodata value was halved *)
C13_Witness ==
    /\ call.fn = "GeoRasterInfo.shrink2" /\ ret # None
    /\ call.self.width = MaxDim /\ call.self.height = 1 /\ call.self.count = 3
    /\ call.self.transform = <<2, 1, 5, -1, 2, 7>> /\ call.self.nodata = Some(-9999)
    /\ ret[1].out.height = 0

(* ---- roi_shrink2, applied to an index and then to its own result ---- *)
RoiParts == {None} \cup {Some(x) : x \in {-MaxIdx, -3, -1, 0, 1, 2, 5, MaxIdx}}

RoiSlices == [t : {"slice"}, start : RoiParts, stop : RoiParts, step : RoiParts]

RoiLeaves ==
    {IntIdx(-3), IntIdx(5), Slice(1, MaxIdx), FullSlice,
     [t |-> "slice", start |-> None, stop |-> Some(-5), step |-> Some(2)]}

RoiTuples ==
    {Tuple(<<>>)}
        \cup {Tuple(<<a>>) : a \in RoiLeaves}
        \cup {Tuple(<<a, b>>) : a \in RoiLeaves, b \in RoiLeaves}
        \cup {Tuple(<<a, Tuple(<<b, c>>)>>) : a \in RoiLeaves, b \in RoiLeaves, c \in RoiLeaves}
        \cup {Tuple(<<Tuple(<<Tuple(<<a>>), b>>)>>) : a \in RoiLeaves, b \in RoiLeaves}

RoiIndexes == {IntIdx(x) : x \in (-MaxIdx) .. MaxIdx} \cup RoiSlices \cup RoiTuples

InitRoi ==
    /\ NoSink
    /\ \E idx \in RoiIndexes : call = [fn |-> "roi_shrink2", idx |-> idx]
    /\ ret = <<>>

(* ret collects the results: roi_shrink2(idx), then roi_shrink2 of that *)
CallRoiShrink2 ==
    /\ call.fn = "roi_shrink2" /\ Len(ret) < 2
    /\ ret' = Append(ret, roi_shrink2(IF ret = <<>> THEN call.idx ELSE ret[Len(ret)]))
    /\ UNCHANGED call
    /\ SinkUnchanged

NextRoi == CallRoiShrink2

SpecRoi == InitRoi /\ [][NextRoi]_vars

(***************************************************************************)
(* Claims about roi_shrink2                                                *)
(***************************************************************************)
PartDiv(x, k) == IF x = None THEN None ELSE Some(x[1] \div k)

(* idx with every integer in it floor-divided by k, None left as None *)
RECURSIVE RoiDiv(_, _)
RoiDiv(idx, k) ==
    IF idx.t = "int" THEN [t |-> "int", v |-> idx.v \div k]
    ELSE IF idx.t = "slice"
         THEN [t |-> "slice", start |-> PartDiv(idx.start, k), stop |-> PartDiv(idx.stop, k),
               step |-> PartDiv(idx.step, k)]
         ELSE [t |-> "tuple", items |-> [i \in 1 .. Len(idx.items) |-> RoiDiv(idx.items[i], k)]]

(* C12: for an int, a slice whose parts are integers or None, or a tuple   *)
(* of these nested to any depth, one halving floor-divides every integer   *)
(* by 2 and keeps every None, and halving the result again gives the index *)
(* with every integer floor-divided by 4.                                  *)
C12_RoiHalvingTwice ==
    call.fn = "roi_shrink2" =>
        /\ Len(ret) >= 1 => ret[1] = RoiDiv(call.idx, 2)
        /\ Len(ret) = 2 => ret[2] = RoiDiv(call.idx, 4)

(* halved twice: a nested tuple holding a slice with a missing start, a    *)
(* negative stop and a step, next to a negative odd integer                *)
C12_Witness ==
    /\ call.fn = "roi_shrink2" /\ Len(ret) = 2
    /\ call.idx = Tuple(<<IntIdx(-3),
                          Tuple(<<[t |-> "slice", start |-> None, stop |-> Some(-5),
                                   step |-> Some(2)], IntIdx(5)>>)>>)
    /\ ret[2].items[1].v = -1
    /\ ret[2].items[2].items[1].stop = Some(-2)

(***************************************************************************)
(* Claims about the level chain                                            *)
(***************************************************************************)
HalvedTimes(x, i) == x \div Pow2(i)

(* the stop condition of section 4.4 on level i (0-based) of the chain of  *)
(* floor-halved descriptors                                                *)
ChainStops(w, h, ovr, i) ==
    \/ HalvedTimes(w, i) % 2 = 1 \/ HalvedTimes(h, i) % 2 = 1
    \/ Min2(HalvedTimes(w, i), HalvedTimes(h, i)) < ovr

CallOvr == IF call.ovr_blocksize # None THEN call.ovr_blocksize[1]
           ELSE IF call.blocksize # None THEN call.blocksize[1] ELSE 512

(* C2: the level chain has between 1 and 8 levels, level i is the          *)
(* descriptor floor-halved i times, no level before the last satisfies the *)
(* stop condition (odd width or height, or smaller dimension below the     *)
(* overview block size), the last one does unless it is level index 7,     *)
(* and a 101x101 descriptor gives exactly one level.                       *)
C2_LevelChainTerminates ==
    (call.fn = "COGSink" /\ ret # None) =>
        LET n == Len(ret[1])
        IN  /\ 1 <= n /\ n <= 8
            /\ \A i \in 1 .. n :
                 /\ ret[1][i].info.width = HalvedTimes(call.width, i - 1)
                 /\ ret[1][i].info.height = HalvedTimes(call.height, i - 1)
            /\ \A i \in 1 .. n - 1 : ~ChainStops(call.width, call.height, CallOvr, i - 1)
            /\ (n = 8 \/ ChainStops(call.width, call.height, CallOvr, n - 1))
            /\ (call.width = 101 /\ call.height = 101 => n = 1)

(* a chain cut by the limit of 8 levels: its last level could be halved *)
C2_Witness ==
    /\ call.fn = "COGSink" /\ ret # None
    /\ Len(ret[1]) = 8
    /\ ~ChainStops(call.width, call.height, CallOvr, 7)

ScenarioA ==
    /\ call.fn = "COGSink" /\ ret # None
    /\ call.width = 1024 /\ call.height = 1024
    /\ call.blocksize = None /\ call.ovr_blocksize = None

LevelSizes == [i \in 1 .. Len(ret[1]) |-> <<ret[1][i].info.width, ret[1][i].info.height>>]

(* C3 as stated: Scenario A (1024x1024, default block sizes) creates       *)
(* exactly the levels 1024 and 512.                                        *)
C3_ScenarioA_TwoLevels ==
    ScenarioA => LevelSizes = <<(<<1024, 1024>>), (<<512, 512>>)>>

(* C3 amended: Scenario A creates exactly the levels 1024, 512 and 256:    *)
(* the 512 level is not below the block size 512, so it is halved once     *)
(* more, and the 256 level is the first below it.                          *)
C3_ScenarioA_ThreeLevels ==
    ScenarioA => LevelSizes = <<(<<1024, 1024>>), (<<512, 512>>), (<<256, 256>>)>>

C3_Witness == ScenarioA /\ Len(ret[1]) = 3

(* C19: for a descriptor with width, height > 0 and an overview block      *)
(* size > 0, every level of the chain has width >= 1 and height >= 1 and   *)
(* each level's width and height are the floor halves of the level above;  *)
(* no level has a zero dimension, although GeoRasterInfo.shrink2 of a      *)
(* level with a dimension of 1 would have one.                             *)
C19_ChainDimsPositive ==
    (call.fn = "COGSink" /\ ret # None) =>
        LET n == Len(ret[1])
            lv(i) == ret[1][i].info
        IN  /\ \A i \in 1 .. n : lv(i).width >= 1 /\ lv(i).height >= 1
            /\ \A i \in 1 .. n - 1 :
                 /\ 2 * lv(i + 1).width <= lv(i).width /\ lv(i).width <= 2 * lv(i + 1).width + 1
                 /\ 2 * lv(i + 1).height <= lv(i).height
                 /\ lv(i).height <= 2 * lv(i + 1).height + 1
            /\ lv(n).width = 1 => GeoRasterInfo_shrink2(lv(n)).width = 0
            /\ lv(n).height = 1 => GeoRasterInfo_shrink2(lv(n)).height = 0

(* a chain halved down to a level one pixel wide, where it stops with an   *)
(* overview block size of 1                                                *)
C19_Witness ==
    /\ call.fn = "COGSink" /\ ret # None
    /\ call.ovr_blocksize = Some(1)
    /\ Len(ret[1]) >= 3
    /\ ret[1][Len(ret[1])].info.width = 1

(***************************************************************************)
(* Claims about the box filter                                             *)
(***************************************************************************)
InPx(r, c) == call.xx.px[<<r, c>>]

(* floor of the exact sum of the four inputs over 4, computed without      *)
(* leaving the 32-bit range                                                *)
ExactFloorMean ==
    ((InPx(0, 0) \div 4) + (InPx(0, 1) \div 4) + (InPx(1, 0) \div 4) + (InPx(1, 1) \div 4))
    + (((InPx(0, 0) % 4) + (InPx(0, 1) % 4) + (InPx(1, 0) % 4) + (InPx(1, 1) % 4)) \div 4)

Shrunk == call.fn = "shrink2" /\ ret # None

(* C9: for every integer element type the output pixel of a 2x2 block is   *)
(* the floor of the exact sum of the four values divided by 4.             *)
C9_ExactFloorMean ==
    Shrunk =>
        /\ ~ret[1].item.err
        /\ ret[1].item.h = 1 /\ ret[1].item.w = 1
        /\ ret[1].item.px[<<0, 0>>] = ExactFloorMean

(* C10: a uniform 2x2 block of value v downsamples to exactly v. *)
C10_UniformBlock ==
    (Shrunk /\ \A p \in DOMAIN call.xx.px : call.xx.px[p] = InPx(0, 0)) =>
        /\ ~ret[1].item.err
        /\ ret[1].item.px[<<0, 0>>] = InPx(0, 0)

(* C11: for a block of any shape (h, w), odd ones included, the output has *)
(* shape (h div 2, w div 2) and output pixel (r, c) is the box filter of    *)
(* the input pixels {2r, 2r+1} x {2c, 2c+1} alone: a trailing odd row or   *)
(* column is dropped, never an error and never broadcast.                  *)
C11_OddTrailingDropped ==
    Shrunk =>
        LET out == ret[1].item
        IN  /\ ~out.err
            /\ out.h = call.xx.h \div 2 /\ out.w = call.xx.w \div 2
            /\ \A p \in Grid(out.h, out.w) :
                 out.px[p] = (InPx(2 * p[1], 2 * p[2]) + InPx(2 * p[1], 2 * p[2] + 1)
                              + InPx(2 * p[1] + 1, 2 * p[2])
                              + InPx(2 * p[1] + 1, 2 * p[2] + 1)) \div 4

(***************************************************************************)
(* Claims about the sinks                                                  *)
(***************************************************************************)
InCall(t) == th[t].pc \notin {"idle", "done"}

Written(l, p) == Len(content[l][p]) = 1

ParentsOf(p) == {<<2 * p[1], 2 * p[2]>>, <<2 * p[1], 2 * p[2] + 1>>,
                 <<2 * p[1] + 1, 2 * p[2]>>, <<2 * p[1] + 1, 2 * p[2] + 1>>}

(* the box filter of the four parents of pixel p of level l + 1 *)
BoxOfParents(l, p) ==
    shrink2Block(info.dtype,
        MkArray(2, 2, [q \in Grid(2, 2) |->
                          content[l][<<2 * p[1] + q[1], 2 * p[2] + q[2]>>][1]])).px[<<0, 0>>]

(* C1: once every write call made has returned normally, every pixel of    *)
(* every overview level whose four parents have been written holds the     *)
(* box filter of the four (a pixel the backend wrote by resampling counts  *)
(* as consistent).                                                         *)
C1_OverviewsConsistent ==
    ((\A t \in Threads : ~InCall(t)) /\ ~hist.raised) =>
        \A l \in 1 .. NLevels - 1 : \A p \in DOMAIN content[l + 1] :
            (\A q \in ParentsOf(p) : Written(l, q)) =>
                \/ content[l + 1][p] = Unspecified
                \/ content[l + 1][p] = Some(BoxOfParents(l, p))

(* C4: the backend writes of one write call are made level by level from   *)
(* level 0: the k-th is on level k-1, the first carries the caller's key   *)
(* and block, each next one the downsample of the one before, none is made *)
(* ahead of the level the call is at, and all are made when it returns.    *)
C4_WritesInLevelOrder ==
    \A t \in Threads :
        th[t].op = "setitem" =>
            LET w == th[t].wlog
            IN  /\ \A i \in 1 .. Len(w) : w[i].lvl = i
                /\ Len(w) >= 1 =>
                     /\ w[1].key = th[t].arg[1] /\ w[1].item = th[t].arg[2]
                     /\ w[1].win = KeyWindow(th[t].arg[1], 1)
                /\ \A i \in 1 .. Len(w) - 1 :
                     /\ w[i + 1].key = roi_shrink2(w[i].key)
                     /\ w[i + 1].item = shrink2Block(info.dtype, w[i].item)
                /\ th[t].pc \in {"setitem", "write"} => Len(w) = th[t].lvl - 1
                /\ (th[t].pc = "done" /\ th[t].out = "ok") => Len(w) = NLevels

(* a call through three levels has returned *)
C4_Witness ==
    \E t \in Threads :
        /\ th[t].op = "setitem" /\ th[t].pc = "done" /\ th[t].out = "ok"
        /\ NLevels = 3 /\ Len(th[t].wlog) = 3

(* C5: with the lock enabled no two threads are inside the backend write   *)
(* of the same level at the same time.                                     *)
C5_MutualExclusion ==
    info.lock =>
        \A t, u \in Threads :
            (t # u /\ th[t].pc = "write" /\ th[u].pc = "write") => th[t].lvl # th[u].lvl

(* one thread is inside the write of a level and the other waits for it *)
C5_Witness ==
    /\ info.lock
    /\ \E t, u \in Threads :
         /\ t # u /\ th[t].pc = "write" /\ th[u].pc = "setitem" /\ th[t].lvl = th[u].lvl
         /\ locks[th[t].lvl] = t

Level0Settled == \A t \in Threads : th[t].op = "setitem" /\ InCall(t) => th[t].lvl > 1

Covered == hist.issued = LevelPixels(layers[1])

(* C6: when disjoint windows covering the raster have been written to the  *)
(* level-0 TIFFSink (one full-extent write, or several windows in any      *)
(* order and, with the lock, any interleaving), the dataset holds the      *)
(* caller's raster pixel for pixel.                                        *)
C6_WindowedEqualsFull ==
    (Covered /\ Level0Settled /\ ~hist.failed0 /\ (info.lock \/ ~hist.raced)) =>
        \A p \in LevelPixels(layers[1]) : content[1][p] = Some(SrcValue(p[1], p[2]))

(* the raster was covered by two windows, written by two threads at once *)
C6_Witness ==
    /\ Covered /\ Level0Settled /\ ~hist.failed0 /\ info.lock
    /\ hist.ncalls = 2
    /\ \A t \in Threads : th[t].op = "setitem"

NAxes(t) == Len(th[t].arg[1].items)

(* C14: a write call whose key has 3 axes never gets past level 0 and      *)
(* never reaches the backend: each of its steps leaves every level's       *)
(* content as it was and the call's list of backend writes empty, and it   *)
(* ends only by raising NotImplementedError from TIFFSink.__setitem__ of   *)
(* level 0.                                                                *)
C14_ThreeAxesUnsupported ==
    [][\A t \in Threads :
          (th'[t] # th[t] /\ th'[t].op = "setitem" /\ Len(th'[t].arg[1].items) = 3) =>
              /\ content' = content
              /\ th'[t].wlog = <<>>
              /\ th'[t].lvl = 1
              /\ th'[t].pc \in {"setitem", "done"}
              /\ th'[t].pc = "done" =>
                    th[t].pc = "setitem" /\ th'[t].out = "NotImplementedError"]_vars

(* a 3-axis write has failed on a pyramid of three levels while level 0    *)
(* holds another call's pixels                                             *)
C14_Witness ==
    /\ NLevels = 3
    /\ \E t \in Threads :
         /\ th[t].op = "setitem" /\ NAxes(t) = 3
         /\ th[t].pc = "done" /\ th[t].out = "NotImplementedError"
    /\ \E p \in DOMAIN content[1] : Written(1, p)

(* C15: a write call whose key has an axis count other than 2 or 3 makes   *)
(* no backend write and ends only by raising the ValueError ('Only accept  *)
(* 2 and 3 dimensional data').                                             *)
C15_AxisCountValueError ==
    \A t \in Threads :
        (th[t].op = "setitem" /\ NAxes(t) \notin {2, 3}) =>
            /\ th[t].wlog = <<>>
            /\ th[t].pc \in {"setitem", "done"}
            /\ th[t].pc = "done" => th[t].out = "ValueError"

(* the step in which the backend write thread t is inside raises *)
WriteRaises(t) ==
    /\ th[t].pc = "write" /\ th'[t].pc # "write"
    /\ \/ hist'.nfail # hist.nfail
       \/ DatasetRejects(res[th[t].lvl])
       \/ th'[t].out = "RasterioIOError"

(* the pixels of level e.lvl that the backend write e of a call addressed  *)
(* hold what it wrote (a zero-sized write wrote nothing)                   *)
StillInPlace(e) ==
    \A p \in WinPixels(e.win) \cap DOMAIN content[e.lvl] :
        \/ ZeroSized(e.win, e.item)
        \/ content[e.lvl][p] = Unspecified
        \/ /\ e.item.h = e.win.height /\ e.item.w = e.win.width
           /\ content[e.lvl][p] = Some(e.item.px[<<p[1] - e.win.row_off, p[2] - e.win.col_off>>])

(* C16: when the backend write of a level k > 0 raises inside a write      *)
(* call, the call ends there with the backend's error (no retry, no other  *)
(* error), no level's content changes in that step, the levels 0..k-1      *)
(* hold what the call wrote to them, the call has made no backend write    *)
(* beyond level k, and a call that has ended makes no further step but the *)
(* return to its caller.                                                   *)
C16_NoRollback ==
    [][\A t \in Threads :
          /\ (WriteRaises(t) /\ th[t].lvl > 1) =>
                /\ th'[t].pc = "done" /\ th'[t].out = "RasterioIOError"
                /\ content' = content
                /\ Len(th[t].wlog) = th[t].lvl - 1
                /\ \A i \in 1 .. Len(th[t].wlog) :
                     th[t].wlog[i].lvl = i /\ StillInPlace(th[t].wlog[i])
                /\ \A i \in 1 .. Len(th'[t].wlog) : th'[t].wlog[i].lvl <= th[t].lvl
          /\ th[t].pc = "done" => th'[t] \in {th[t], IdleThread}]_vars

(* the backend write of level 2 of 3 has failed on its own after the call  *)
(* wrote levels 0 and 1, and both still hold its pixels                    *)
C16_Witness ==
    /\ NLevels = 3 /\ hist.io_failed
    /\ \E t \in Threads :
         /\ th[t].op = "setitem" /\ th[t].pc = "done" /\ th[t].out = "RasterioIOError"
         /\ th[t].lvl = 3 /\ Len(th[t].wlog) = 2
         /\ \A i \in 1 .. 2 : \E p \in WinPixels(th[t].wlog[i].win) : Written(i, p)

(* C7: after a close() of a TIFFSink every resource it owns has been       *)
(* released exactly once: the dataset, and the MemoryFile it made itself   *)
(* for ":mem:".                                                            *)
C7_CloseReleasesAll ==
    (info.kind = "TIFFSink" /\ hist.ncloses >= 1) =>
        /\ res[1].out_released = 1
        /\ info.dst = ":mem:" => res[1].mem_released = 1

(* C18: no thread is ever inside the backend write of a level whose sink   *)
(* has been closed, whatever the threads do: also when one closes or       *)
(* finalises while another's write is on its way through the levels.       *)
C18_NoWriteAfterClose ==
    \A t \in Threads : th[t].pc = "write" => res[th[t].lvl].out_open

LocksHeld(t) == {l \in Levels : locks[l] = t}

(* C20: with the lock enabled a thread holds at most one level's lock, and *)
(* only while it is inside that level's backend write (so it has released  *)
(* it before it takes the next level's, also when the write raised), and   *)
(* under fair scheduling every write call that is under way ends: it       *)
(* returns or raises.                                                      *)
C20_DeadlockFree ==
    /\ [](\A t \in Threads :
             /\ Cardinality(LocksHeld(t)) <= 1
             /\ LocksHeld(t) # {} => th[t].pc = "write" /\ LocksHeld(t) = {th[t].lvl})
    /\ \A t \in Threads : (th[t].pc \in {"setitem", "write"}) ~> (th[t].pc = "done")

(* a backend write raised on its own, and the other thread has since taken *)
(* the lock of that level                                                  *)
C20_Witness ==
    /\ info.lock /\ hist.io_failed
    /\ \E t, u \in Threads :
         /\ t # u
         /\ th[t].pc = "done" /\ th[t].out = "RasterioIOError" /\ Len(th[t].wlog) = th[t].lvl - 1
         /\ th[u].pc = "write" /\ th[u].lvl = th[t].lvl /\ locks[th[t].lvl] = u

(* C17: once finalise() has returned without error, every level's          *)
(* temporary is released: its dataset is closed and the MemoryFile behind  *)
(* it is closed, or the file it made under temp_folder is gone.            *)
C17_TempsReleasedAfterFinalise ==
    (\E t \in Threads : th[t].op = "finalise" /\ th[t].pc = "done" /\ th[t].out = "ok") =>
        \A l \in Levels : ~res[l].out_open /\ ~res[l].mem_open /\ ~res[l].file

(* C8: finalise calls rio_copy once, after closing every level in index    *)
(* order, from the level-0 temporary to the final destination, which       *)
(* nothing has opened, written or closed before.                           *)
C8_FinaliseClosesThenCopies ==
    /\ Len(hist.copies) <= 1
    /\ Len(hist.copies) = 0 => FinalDst \notin hist.touched
    /\ \A i \in 1 .. Len(hist.copies) :
         /\ hist.copies[i].src = TempName(0)
         /\ hist.copies[i].dst = FinalDst
         /\ hist.copies[i].closed = [l \in 1 .. NLevels |-> l]
         /\ hist.copies[i].untouched
    /\ \A t \in Threads :
         (th[t].op = "finalise" /\ th[t].pc = "done") => Len(hist.copies) = 1
    /\ \A t \in Threads :
         (th[t].op = "finalise" /\ th[t].pc = "copy") =>
            Len(hist.copies) = 0 /\ \A l \in Levels : ~res[l].out_open

(* finalise has returned on a sink that was never written *)
C8_Witness ==
    /\ hist.ncalls = 0
    /\ \E t \in Threads : th[t].op = "finalise" /\ th[t].pc = "done"
    /\ Len(hist.copies) = 1

====
